---- MODULE Spec2Model ----
(***************************************************************************)
(* TicTacToeX: the game engine of src/src/lib/tictactoe/engine.ts as a     *)
(* state machine.  The engine closes over one GameState (`state`) and the  *)
(* timers it has handed to setTimeout; every dispatched action and every   *)
(* timer callback is one atomic step (JavaScript runs them to completion). *)
(* Move.timestamp (Date.now()) is never read by the engine and is left out.*)
(* Around the engine stand its clients: the listeners passed to subscribe, *)
(* a client holding a snapshot it got from getState() or from a            *)
(* notification, and the GameController of src/unnamed/part_000 with the   *)
(* remote adapter of src/src/lib/tictactoe/remote.ts.                      *)
(***************************************************************************)
EXTENDS Integers, Sequences, FiniteSets, TLC

\* Player = 'X' | 'O' | null
NULL == "null"

\* winningLine: null is the empty list of positions
NoLine == <<>>

\* an absent optional argument / an undefined position
Undefined == <<>>

\* stand-in for JavaScript's Infinity: larger than any score or depth
Infinity == 1000

Other(p) == IF p = "X" THEN "O" ELSE "X"

\* createBoard(size): rows and columns are indexed from 0 as in the source
createBoard(size) == [r \in 0..(size - 1) |-> [c \in 0..(size - 1) |-> NULL]]

\* board.length
BoardLen(board) == Cardinality(DOMAIN board)

\* Array(size).fill(0).map((_, i) => f(i)) as a list
RowLine(size, row) == [i \in 1..size |-> <<row, i - 1>>]
ColLine(size, col) == [i \in 1..size |-> <<i - 1, col>>]
DiagLine(size) == [i \in 1..size |-> <<i - 1, i - 1>>]
AntiLine(size) == [i \in 1..size |-> <<i - 1, size - i>>]

GameOverResult(over, w, d, line) ==
  [isGameOver |-> over, winner |-> w, isDraw |-> d, winningLine |-> line]

\* the draw check reporting isGameOver: false on a full board
DrawResult_notOver(board) ==
  LET size == BoardLen(board)
      isDraw == \A row \in 0..(size - 1) : \A col \in 0..(size - 1) : board[row][col] # NULL
  IN GameOverResult(FALSE, NULL, isDraw, NoLine)

\* the trailing draw check of checkGameOver: all cells filled
DrawResult(board) ==
  LET size == BoardLen(board)
      isDraw == \A row \in 0..(size - 1) : \A col \in 0..(size - 1) : board[row][col] # NULL
  IN GameOverResult(isDraw, NULL, isDraw, NoLine)

\* last-move detection without the anti-diagonal check
checkLastMove_noAntiDiagonal(board, lastMove) ==
  LET size == BoardLen(board)
      row == lastMove[1]
      col == lastMove[2]
      player == board[row][col]
      idx == 0..(size - 1)
  IN IF player = NULL THEN GameOverResult(FALSE, NULL, FALSE, NoLine)
     ELSE IF \A c \in idx : board[row][c] = player
       THEN GameOverResult(TRUE, player, FALSE, RowLine(size, row))
     ELSE IF \A r \in idx : board[r][col] = player
       THEN GameOverResult(TRUE, player, FALSE, ColLine(size, col))
     ELSE IF row = col /\ \A i \in idx : board[i][i] = player
       THEN GameOverResult(TRUE, player, FALSE, DiagLine(size))
     ELSE DrawResult(board)

\* last-move detection that checks the column before the row
checkLastMove_columnFirst(board, lastMove) ==
  LET size == BoardLen(board)
      row == lastMove[1]
      col == lastMove[2]
      player == board[row][col]
      idx == 0..(size - 1)
  IN IF player = NULL THEN GameOverResult(FALSE, NULL, FALSE, NoLine)
     ELSE IF \A r \in idx : board[r][col] = player
       THEN GameOverResult(TRUE, player, FALSE, ColLine(size, col))
     ELSE IF \A c \in idx : board[row][c] = player
       THEN GameOverResult(TRUE, player, FALSE, RowLine(size, row))
     ELSE IF row = col /\ \A i \in idx : board[i][i] = player
       THEN GameOverResult(TRUE, player, FALSE, DiagLine(size))
     ELSE IF row + col = size - 1 /\ \A i \in idx : board[i][size - 1 - i] = player
       THEN GameOverResult(TRUE, player, FALSE, AntiLine(size))
     ELSE DrawResult(board)

\* checkGameOver with lastMove given: only the lines through lastMove
checkLastMove(board, lastMove) ==
  LET size == BoardLen(board)
      row == lastMove[1]
      col == lastMove[2]
      player == board[row][col]
      idx == 0..(size - 1)
  IN IF player = NULL THEN GameOverResult(FALSE, NULL, FALSE, NoLine)
     ELSE IF \A c \in idx : board[row][c] = player
       THEN GameOverResult(TRUE, player, FALSE, RowLine(size, row))
     ELSE IF \A r \in idx : board[r][col] = player
       THEN GameOverResult(TRUE, player, FALSE, ColLine(size, col))
     ELSE IF row = col /\ \A i \in idx : board[i][i] = player
       THEN GameOverResult(TRUE, player, FALSE, DiagLine(size))
     ELSE IF row + col = size - 1 /\ \A i \in idx : board[i][size - 1 - i] = player
       THEN GameOverResult(TRUE, player, FALSE, AntiLine(size))
     ELSE DrawResult(board)

\* checkGameOver without lastMove: rows, then columns, then the diagonals
checkFullScan(board) ==
  LET size == BoardLen(board)
      idx == 0..(size - 1)
      rowWin(row) == board[row][0] # NULL /\ \A col \in 1..(size - 1) : board[row][col] = board[row][0]
      colWin(col) == board[0][col] # NULL /\ \A row \in 1..(size - 1) : board[row][col] = board[0][col]
      wonRows == {row \in idx : rowWin(row)}
      wonCols == {col \in idx : colWin(col)}
      firstRow == CHOOSE row \in wonRows : \A o \in wonRows : row <= o
      firstCol == CHOOSE col \in wonCols : \A o \in wonCols : col <= o
  IN IF wonRows # {}
       THEN GameOverResult(TRUE, board[firstRow][0], FALSE, RowLine(size, firstRow))
     ELSE IF wonCols # {}
       THEN GameOverResult(TRUE, board[0][firstCol], FALSE, ColLine(size, firstCol))
     ELSE IF board[0][0] # NULL /\ \A i \in 1..(size - 1) : board[i][i] = board[0][0]
       THEN GameOverResult(TRUE, board[0][0], FALSE, DiagLine(size))
     ELSE IF board[0][size - 1] # NULL
             /\ \A i \in 1..(size - 1) : board[i][size - 1 - i] = board[0][size - 1]
       THEN GameOverResult(TRUE, board[0][size - 1], FALSE, AntiLine(size))
     ELSE DrawResult(board)

checkGameOver(board, lastMove) ==
  IF lastMove # Undefined THEN checkLastMove(board, lastMove) ELSE checkFullScan(board)

\* the empty cells in row-major order (getAvailableMoves and the loop in minimax)
RECURSIVE EmptyCellsFrom(_, _, _)
EmptyCellsFrom(board, size, k) ==
  IF k >= size * size THEN <<>>
  ELSE LET row == k \div size
           col == k % size
       IN (IF board[row][col] = NULL THEN <<(<<row, col>>)>> ELSE <<>>)
            \o EmptyCellsFrom(board, size, k + 1)

EmptyCells(board) == EmptyCellsFrom(board, BoardLen(board), 0)

\* newBoard = board.map(r => [...r]); newBoard[row][col] = mark
Place(board, pos, mark) == [board EXCEPT ![pos[1]][pos[2]] = mark]

\* shuffleArray: Fisher-Yates, i from length-1 down to 1 (0-based), j = floor(random * (i + 1)).
\* Math.random() is rnd/10; array is 1-based here, so slots i+1 and j+1 are swapped.
RECURSIVE shuffleFrom(_, _, _)
shuffleFrom(array, i, rnd) ==
  IF i <= 0 THEN array
  ELSE LET j == (rnd * (i + 1)) \div 10
       IN shuffleFrom([array EXCEPT ![i + 1] = array[j + 1], ![j + 1] = array[i + 1]], i - 1, rnd)

shuffleArray(array, rnd) == shuffleFrom(array, Len(array) - 1, rnd)

Pow2(n) == IF n = 0 THEN 1 ELSE 2 ^ n

\* evaluateLine over the list of cells of one line
evaluateLine(line) ==
  LET countX == Cardinality({i \in DOMAIN line : line[i] = "X"})
      countO == Cardinality({i \in DOMAIN line : line[i] = "O"})
  IN (IF countX = 0 /\ countO > 0 THEN Pow2(countO) ELSE 0)
     - (IF countO = 0 /\ countX > 0 THEN Pow2(countX) ELSE 0)

RECURSIVE SumTo(_, _)
SumTo(f, n) == IF n < 0 THEN 0 ELSE f[n] + SumTo(f, n - 1)

evaluateBoard(board) ==
  LET size == BoardLen(board)
      idx == 0..(size - 1)
      rows == [row \in idx |-> evaluateLine([i \in idx |-> board[row][i]])]
      cols == [col \in idx |-> evaluateLine([i \in idx |-> board[i][col]])]
  IN SumTo(rows, size - 1) + SumTo(cols, size - 1)
     + evaluateLine([i \in idx |-> board[i][i]])
     + evaluateLine([i \in idx |-> board[i][size - 1 - i]])

Max(a, b) == IF a >= b THEN a ELSE b
Min(a, b) == IF a <= b THEN a ELSE b

\* minimax(board, depth, isMaximizing, alpha, beta); boardSize is state.boardSize,
\* rnd the value Math.random() yields in the shuffles of this search
RECURSIVE minimax(_, _, _, _, _, _, _)
RECURSIVE minimaxLoop(_, _, _, _, _, _, _, _, _, _)
minimax(board, depth, isMaximizing, alpha, beta, boardSize, rnd) ==
  LET maxDepth == IF boardSize = 3 THEN Infinity ELSE 5
      gameOverStatus == checkGameOver(board, Undefined)
  IN IF (gameOverStatus.isGameOver \/ depth >= maxDepth) /\ gameOverStatus.winner = "O"
       THEN [score |-> 10 - depth, position |-> Undefined]
     ELSE IF (gameOverStatus.isGameOver \/ depth >= maxDepth) /\ gameOverStatus.winner = "X"
       THEN [score |-> depth - 10, position |-> Undefined]
     ELSE IF (gameOverStatus.isGameOver \/ depth >= maxDepth) /\ gameOverStatus.isDraw
       THEN [score |-> 0, position |-> Undefined]
     ELSE IF depth >= maxDepth
       THEN [score |-> evaluateBoard(board), position |-> Undefined]
     ELSE minimaxLoop(board, depth, isMaximizing, alpha, beta, boardSize, rnd,
                      shuffleArray(EmptyCells(board), rnd), 1,
                      [score |-> IF isMaximizing THEN -Infinity ELSE Infinity,
                       position |-> Undefined])

\* the comparison of the minimizing branch used in both branches
improvesBest_alwaysMinimizes(isMaximizing, score, bestScore) == score < bestScore

\* the comparison of the maximizing branch used in both branches
improvesBest_alwaysMaximizes(isMaximizing, score, bestScore) == score > bestScore

\* result.score > bestScore when maximizing, result.score < bestScore otherwise
improvesBest(isMaximizing, score, bestScore) ==
  IF isMaximizing THEN score > bestScore ELSE score < bestScore

\* the for-loop of minimax from the k-th shuffled move on; best = {bestScore, bestMove}
minimaxLoop(board, depth, isMaximizing, alpha, beta, boardSize, rnd, moves, k, best) ==
  IF k > Len(moves) THEN best
  ELSE LET newBoard == Place(board, moves[k], IF isMaximizing THEN "O" ELSE "X")
           result == minimax(newBoard, depth + 1, ~isMaximizing, alpha, beta, boardSize, rnd)
           improves == improvesBest(isMaximizing, result.score, best.score)
           newBest == IF improves THEN [score |-> result.score, position |-> moves[k]]
                                  ELSE best
           newAlpha == IF isMaximizing THEN Max(alpha, newBest.score) ELSE alpha
           newBeta == IF isMaximizing THEN beta ELSE Min(beta, newBest.score)
       IN IF newBeta <= newAlpha THEN newBest
          ELSE minimaxLoop(board, depth, isMaximizing, newAlpha, newBeta, boardSize, rnd,
                           moves, k + 1, newBest)

\* ---------------------------------------------------------------------------
\* Bounds of the model

\* a game is followed while at most MaxDetours of its recorded moves are
\* detours (see Detours)
MaxDetours == 2

\* at most MaxPending setTimeout callbacks are outstanding at once
MaxPending == 1

\* a game is followed up to MaxMoves recorded moves
MaxMoves == 9

\* the values Math.random() yields in the shuffles of a search, in tenths; one
\* value serves every draw of one getBestMove call
ShuffleDraws == {0, 3, 4, 5}

\* the draws of the reducer specification, in tenths: 0.9 is below no
\* bestMoveChance, so the machine's move is the random pick
HighDraws == {9}

Modes == {"single", "local", "remote"}
\* the difficulties of the reducer specification: two of those that consult Math.random()
RandomDifficulties == {"easy", "hard"}

\* sizes handed to the constructor and to CHANGE_BOARD_SIZE
InitSizes == {3, 4}
SizeInputs == {2, 3, 4, 11}
RoomIds == {"room1"}
NoRoom == "undefined"

VARIABLES
  state,       \* let state: GameState
  timers,      \* number of setTimeout callbacks not yet run
  listeners,   \* const listeners: the array subscribe pushes to
  held,        \* what a client holds: a snapshot (and what it shares with state),
               \* the unsubscribe closures subscribe returned to it, or its remote adapter
  controller   \* the mounted GameController: settings, React state, adapter, socket

vars == <<state, timers, listeners, held, controller>>

\* no snapshot taken, no controller mounted
NoSnapshot == "none"
NotMounted == "unmounted"

\* an engine on its own: nobody subscribed, no snapshot held, no controller
Standalone ==
  /\ listeners = <<>>
  /\ held = NoSnapshot
  /\ controller = NotMounted

\* createInitialState(boardSize, gameMode, difficulty)
createInitialState(boardSize, gameMode, difficulty) ==
  [board |-> createBoard(boardSize),
   currentPlayer |-> "X",
   winner |-> NULL,
   isDraw |-> FALSE,
   isGameOver |-> FALSE,
   winningLine |-> NoLine,
   boardSize |-> boardSize,
   moveHistory |-> <<>>,
   gameMode |-> gameMode,
   difficulty |-> difficulty,
   roomId |-> NoRoom]

\* isValidMove without the empty-cell test
isValidMove_ignoresOccupied(s, position) ==
  LET row == position[1]
      col == position[2]
  IN IF row < 0 \/ col < 0 \/ row >= s.boardSize \/ col >= s.boardSize
       THEN FALSE
       ELSE TRUE

\* isValidMove(position) on engine state s
isValidMove(s, position) ==
  LET row == position[1]
      col == position[2]
  IN IF row < 0 \/ col < 0 \/ row >= s.boardSize \/ col >= s.boardSize
       THEN FALSE
       ELSE s.board[row][col] = NULL

\* getAvailableMoves()
getAvailableMoves(s) == EmptyCellsFrom(s.board, s.boardSize, 0)

\* What one operation does: the state it leaves, whether it called
\* notifyListeners, how many timers it scheduled, whether it threw.
Effect(s, notified, scheduled, threw) ==
  [state |-> s, notified |-> notified, scheduled |-> scheduled, threw |-> threw]

NoEffect(s) == Effect(s, FALSE, 0, FALSE)

\* makeMove without the isGameOver test of its first line
makeMove_ignoresGameOver(s, position) ==
  IF ~isValidMove(s, position) THEN NoEffect(s)
  ELSE LET newBoard == Place(s.board, position, s.currentPlayer)
           move == [player |-> s.currentPlayer, position |-> position]
           gameOverStatus == checkGameOver(newBoard, position)
           new == [s EXCEPT !.board = newBoard,
                            !.currentPlayer = Other(s.currentPlayer),
                            !.moveHistory = Append(s.moveHistory, move),
                            !.isGameOver = gameOverStatus.isGameOver,
                            !.winner = gameOverStatus.winner,
                            !.isDraw = gameOverStatus.isDraw,
                            !.winningLine = gameOverStatus.winningLine]
       IN Effect(new, TRUE,
                 IF new.gameMode = "single" /\ ~new.isGameOver /\ new.currentPlayer = "O"
                   THEN 1 ELSE 0,
                 FALSE)

\* makeMove that plays the machine's reply inline, at the first empty cell,
\* instead of scheduling it
makeMove_repliesInline(s, position) ==
  LET e == makeMove_ignoresGameOver(s, position)
      reply == EmptyCellsFrom(e.state.board, e.state.boardSize, 0)[1]
  IN IF s.isGameOver THEN NoEffect(s)
     ELSE IF e.scheduled = 0 THEN e
     ELSE Effect(makeMove_ignoresGameOver(e.state, reply).state, TRUE, 0, FALSE)

\* makeMove(position)
makeMove(s, position) ==
  IF s.isGameOver \/ ~isValidMove(s, position) THEN NoEffect(s)
  ELSE LET newBoard == Place(s.board, position, s.currentPlayer)
           move == [player |-> s.currentPlayer, position |-> position]
           gameOverStatus == checkGameOver(newBoard, position)
           new == [s EXCEPT !.board = newBoard,
                            !.currentPlayer = Other(s.currentPlayer),
                            !.moveHistory = Append(s.moveHistory, move),
                            !.isGameOver = gameOverStatus.isGameOver,
                            !.winner = gameOverStatus.winner,
                            !.isDraw = gameOverStatus.isDraw,
                            !.winningLine = gameOverStatus.winningLine]
       IN Effect(new, TRUE,
                 IF new.gameMode = "single" /\ ~new.isGameOver /\ new.currentPlayer = "O"
                   THEN 1 ELSE 0,
                 FALSE)

\* difficulties[d].bestMoveChance, in tenths
bestMoveChance(d) == IF d = "easy" THEN 3 ELSE IF d = "medium" THEN 6 ELSE 9

\* availableMoves[Math.floor(Math.random() * availableMoves.length)]
RandomMove(availableMoves, rnd) == availableMoves[((rnd * Len(availableMoves)) \div 10) + 1]

\* getBestMove without the isGameOver test of its first line
getBestMove_ignoresGameOver(s, rndPolicy, rndPick, rndShuffle) ==
  LET availableMoves == getAvailableMoves(s)
      position == minimax(s.board, 0, TRUE, -Infinity, Infinity, s.boardSize, rndShuffle).position
  IN IF Len(availableMoves) = 0 THEN Undefined
     ELSE IF s.difficulty # "unbeatable"
       THEN IF rndPolicy < bestMoveChance(s.difficulty)
              THEN IF position # Undefined THEN position
                   ELSE RandomMove(availableMoves, rndPick)
              ELSE RandomMove(availableMoves, rndPick)
     ELSE IF position # Undefined THEN position ELSE availableMoves[1]

\* getBestMove(): rndPolicy and rndPick are what Math.random() yields for the
\* difficulty draw and the random pick, rndShuffle what it yields in the shuffles
getBestMove(s, rndPolicy, rndPick, rndShuffle) ==
  IF s.isGameOver THEN Undefined
  ELSE LET availableMoves == getAvailableMoves(s)
           position == minimax(s.board, 0, TRUE, -Infinity, Infinity, s.boardSize, rndShuffle).position
       IN IF Len(availableMoves) = 0 THEN Undefined
          ELSE IF s.difficulty # "unbeatable"
            THEN IF rndPolicy < bestMoveChance(s.difficulty)
                   THEN IF position # Undefined THEN position
                        ELSE RandomMove(availableMoves, rndPick)
                   ELSE RandomMove(availableMoves, rndPick)
          ELSE IF position # Undefined THEN position ELSE availableMoves[1]

\* the setTimeout callback of makeMove
aiTimer(s, rndPolicy, rndPick, rndShuffle) ==
  LET aiMove == getBestMove(s, rndPolicy, rndPick, rndShuffle)
  IN IF aiMove # Undefined THEN makeMove(s, aiMove) ELSE NoEffect(s)

resetGame(s) ==
  Effect(createInitialState(s.boardSize, s.gameMode, s.difficulty), TRUE, 0, FALSE)

\* changeBoardSize without the range test
changeBoardSize_acceptsAny(s, size) ==
  Effect(createInitialState(size, s.gameMode, s.difficulty), TRUE, 0, FALSE)

changeBoardSize(s, size) ==
  IF size < 3 \/ size > 10 THEN Effect(s, FALSE, 0, TRUE)
  ELSE Effect(createInitialState(size, s.gameMode, s.difficulty), TRUE, 0, FALSE)

\* changeGameMode that only replaces the mode
changeGameMode_keepsGame(s, mode) ==
  Effect([s EXCEPT !.gameMode = mode], TRUE, 0, FALSE)

changeGameMode(s, mode) ==
  Effect(createInitialState(s.boardSize, mode, s.difficulty), TRUE, 0, FALSE)

changeDifficulty_resetsGame(s, difficulty) ==
  Effect(createInitialState(s.boardSize, s.gameMode, difficulty), TRUE, 0, FALSE)

changeDifficulty(s, difficulty) ==
  Effect([s EXCEPT !.difficulty = difficulty], TRUE, 0, FALSE)

\* the board rebuilt from a move history
RECURSIVE Replay(_, _, _)
Replay(board, history, k) ==
  IF k > Len(history) THEN board
  ELSE Replay(Place(board, history[k].position, history[k].player), history, k + 1)

\* undo that leaves isGameOver as it was
Undone_keepsGameOver(s, newHistory, player) ==
  [s EXCEPT !.board = Replay(createBoard(s.boardSize), newHistory, 1),
            !.currentPlayer = player,
            !.winner = NULL,
            !.isDraw = FALSE,
            !.winningLine = NoLine,
            !.moveHistory = newHistory]

\* undo that forgets to clear winningLine
Undone_keepsWinningLine(s, newHistory, player) ==
  [s EXCEPT !.board = Replay(createBoard(s.boardSize), newHistory, 1),
            !.currentPlayer = player,
            !.winner = NULL,
            !.isDraw = FALSE,
            !.isGameOver = FALSE,
            !.moveHistory = newHistory]

\* undo that replays the trimmed history onto the current board
Undone_patchesBoard(s, newHistory, player) ==
  [s EXCEPT !.board = Replay(s.board, newHistory, 1),
            !.currentPlayer = player,
            !.winner = NULL,
            !.isDraw = FALSE,
            !.isGameOver = FALSE,
            !.winningLine = NoLine,
            !.moveHistory = newHistory]

\* undo that forgets to clear winner
Undone_keepsWinner(s, newHistory, player) ==
  [s EXCEPT !.board = Replay(createBoard(s.boardSize), newHistory, 1),
            !.currentPlayer = player,
            !.isDraw = FALSE,
            !.isGameOver = FALSE,
            !.winningLine = NoLine,
            !.moveHistory = newHistory]

Undone(s, newHistory, player) ==
  [s EXCEPT !.board = Replay(createBoard(s.boardSize), newHistory, 1),
            !.currentPlayer = player,
            !.winner = NULL,
            !.isDraw = FALSE,
            !.isGameOver = FALSE,
            !.winningLine = NoLine,
            !.moveHistory = newHistory]

\* undoMove that keeps currentPlayer in the two-player branch
undoMove_noFlip(s) ==
  LET n == Len(s.moveHistory)
      lastMove == s.moveHistory[n]
  IN IF n = 0 THEN NoEffect(s)
     ELSE IF s.gameMode = "single"
       THEN IF lastMove.player = "O" /\ n >= 2
              THEN Effect(Undone(s, SubSeq(s.moveHistory, 1, n - 2), "X"), TRUE, 0, FALSE)
            ELSE IF lastMove.player = "X"
              THEN Effect(Undone(s, SubSeq(s.moveHistory, 1, n - 1), "X"), TRUE, 0, FALSE)
            ELSE Effect(s, TRUE, 0, FALSE)
     ELSE Effect(Undone(s, SubSeq(s.moveHistory, 1, n - 1), s.currentPlayer),
                 TRUE, 0, FALSE)

\* undoMove that drops one move in single-player mode whoever made it
undoMove_singleDropsOne(s) ==
  LET n == Len(s.moveHistory)
  IN IF n = 0 THEN NoEffect(s)
     ELSE IF s.gameMode = "single"
       THEN Effect(Undone(s, SubSeq(s.moveHistory, 1, n - 1), "X"), TRUE, 0, FALSE)
     ELSE Effect(Undone(s, SubSeq(s.moveHistory, 1, n - 1), Other(s.currentPlayer)),
                 TRUE, 0, FALSE)

\* undoMove without the empty-history return of its first line
undoMove_notifiesOnEmpty(s) ==
  LET n == Len(s.moveHistory)
      lastMove == s.moveHistory[n]
  IN IF n = 0 THEN Effect(s, TRUE, 0, FALSE)
     ELSE IF s.gameMode = "single"
       THEN IF lastMove.player = "O" /\ n >= 2
              THEN Effect(Undone(s, SubSeq(s.moveHistory, 1, n - 2), "X"), TRUE, 0, FALSE)
            ELSE IF lastMove.player = "X"
              THEN Effect(Undone(s, SubSeq(s.moveHistory, 1, n - 1), "X"), TRUE, 0, FALSE)
            ELSE Effect(s, TRUE, 0, FALSE)
     ELSE Effect(Undone(s, SubSeq(s.moveHistory, 1, n - 1), Other(s.currentPlayer)),
                 TRUE, 0, FALSE)

\* undoMove()
undoMove(s) ==
  LET n == Len(s.moveHistory)
      lastMove == s.moveHistory[n]
  IN IF n = 0 THEN NoEffect(s)
     ELSE IF s.gameMode = "single"
       THEN IF lastMove.player = "O" /\ n >= 2
              THEN Effect(Undone(s, SubSeq(s.moveHistory, 1, n - 2), "X"), TRUE, 0, FALSE)
            ELSE IF lastMove.player = "X"
              THEN Effect(Undone(s, SubSeq(s.moveHistory, 1, n - 1), "X"), TRUE, 0, FALSE)
            ELSE Effect(s, TRUE, 0, FALSE)
     ELSE Effect(Undone(s, SubSeq(s.moveHistory, 1, n - 1), Other(s.currentPlayer)),
                 TRUE, 0, FALSE)

joinRemoteGame_keepsMode(s, roomId) ==
  Effect([createInitialState(s.boardSize, s.gameMode, s.difficulty) EXCEPT !.roomId = roomId],
         TRUE, 0, FALSE)

joinRemoteGame(s, roomId) ==
  Effect([createInitialState(s.boardSize, "remote", s.difficulty) EXCEPT !.roomId = roomId],
         TRUE, 0, FALSE)

\* dispatch: the switch over action.type.  An action is a record with the
\* fields of its type; a type outside the switch reaches the default branch,
\* which logs to the console and returns.
dispatch_unknownResets(s, action) ==
  CASE action.type = "MAKE_MOVE" -> makeMove(s, action.position)
    [] action.type = "RESET_GAME" -> resetGame(s)
    [] action.type = "CHANGE_BOARD_SIZE" -> changeBoardSize(s, action.size)
    [] action.type = "CHANGE_GAME_MODE" -> changeGameMode(s, action.mode)
    [] action.type = "CHANGE_DIFFICULTY" -> changeDifficulty(s, action.difficulty)
    [] action.type = "UNDO_MOVE" -> undoMove(s)
    [] action.type = "JOIN_REMOTE_GAME" -> joinRemoteGame(s, action.roomId)
    [] OTHER -> resetGame(s)

dispatch(s, action) ==
  CASE action.type = "MAKE_MOVE" -> makeMove(s, action.position)
    [] action.type = "RESET_GAME" -> resetGame(s)
    [] action.type = "CHANGE_BOARD_SIZE" -> changeBoardSize(s, action.size)
    [] action.type = "CHANGE_GAME_MODE" -> changeGameMode(s, action.mode)
    [] action.type = "CHANGE_DIFFICULTY" -> changeDifficulty(s, action.difficulty)
    [] action.type = "UNDO_MOVE" -> undoMove(s)
    [] action.type = "JOIN_REMOTE_GAME" -> joinRemoteGame(s, action.roomId)
    [] OTHER -> NoEffect(s)

\* The public queries as calls: the value returned together with what the
\* call does to the engine.  None of them assigns state, calls
\* notifyListeners or setTimeout; minimax writes only to newBoard, its own
\* copy of the board it is given.
Call(value, effect) == [value |-> value, effect |-> effect]

\* getBestMove that applies the move it found
getBestMoveCall_appliesMove(s, rndPolicy, rndPick, rndShuffle) ==
  LET aiMove == getBestMove(s, rndPolicy, rndPick, rndShuffle)
  IN Call(aiMove, IF aiMove # Undefined THEN makeMove(s, aiMove) ELSE NoEffect(s))

getBestMoveCall(s, rndPolicy, rndPick, rndShuffle) ==
  Call(getBestMove(s, rndPolicy, rndPick, rndShuffle), NoEffect(s))

getAvailableMovesCall(s) == Call(getAvailableMoves(s), NoEffect(s))

isValidMoveCall(s, position) == Call(isValidMove(s, position), NoEffect(s))

\* getState: () => ({ ...state })
getStateCall(s) == Call(s, NoEffect(s))

\* every position a caller can probe: the board and one ring around it
Probes(s) == (-1..s.boardSize) \X (-1..s.boardSize)

Cells(s) == (0..(s.boardSize - 1)) \X (0..(s.boardSize - 1))

InRange(s, position) == position \in Cells(s)

\* ---------------------------------------------------------------------------
\* The state machine

Init ==
  /\ \E n \in InitSizes, m \in Modes, d \in RandomDifficulties :
       state = createInitialState(n, m, d)
  /\ timers = 0
  /\ Standalone

\* The number of detours of a history.  A move is a detour unless it went to
\* the cell its mark fills first: for X the first empty cell in row-major
\* order, for O the last one, of the board it was played on.
Detours(history, size) ==
  LET at(i) == history[i].position[1] * size + history[i].position[2]
      \* the cells that come before move k's cell in the order of its mark,
      \* and how many of them the earlier moves had filled
      ahead(k) == IF history[k].player = "X" THEN at(k) ELSE size * size - 1 - at(k)
      filled(k) == Cardinality({i \in 1..(k - 1) :
                                  IF history[k].player = "X" THEN at(i) < at(k)
                                                             ELSE at(i) > at(k)})
  IN Cardinality({k \in 1..Len(history) : filled(k) < ahead(k)})

\* a dispatch or a timer callback with effect e; fired = 1 for a timer callback
Step(e, fired) ==
  /\ timers - fired + e.scheduled <= MaxPending
  /\ state' = e.state
  /\ timers' = timers - fired + e.scheduled
  /\ UNCHANGED <<listeners, held, controller>>

\* a step of the reducer specification: the game it leaves is within the bounds
\* (a history that did not grow has no more detours than before)
Apply(e, fired) ==
  /\ Len(e.state.moveHistory) <= MaxMoves
  /\ IF Len(e.state.moveHistory) <= Len(state.moveHistory)
       THEN TRUE
       ELSE Detours(e.state.moveHistory, e.state.boardSize) <= MaxDetours
  /\ Step(e, fired)

\* positions outside the board, one for each bound isValidMove tests
OutOfRange(s) == {<<-1, 0>>, <<0, -1>>, <<s.boardSize, 0>>, <<0, s.boardSize>>}

\* the positions the dispatcher sends: the first two empty cells and the last
\* one, the cell of the most recent move (occupied) and positions outside the board
ClickInputs(s) ==
  LET avail == getAvailableMoves(s)
      n == Len(s.moveHistory)
  IN {avail[k] : k \in {1, 2, Len(avail)} \cap DOMAIN avail}
     \cup (IF n > 0 THEN {s.moveHistory[n].position} ELSE {})
     \cup OutOfRange(s)

MakeMove == \E position \in ClickInputs(state) : Apply(makeMove(state, position), 0)

TimerFires ==
  /\ timers > 0
  /\ \E rndPolicy \in HighDraws, rndPick \in HighDraws, rndShuffle \in HighDraws :
       Apply(aiTimer(state, rndPolicy, rndPick, rndShuffle), 1)

ResetGame == Apply(resetGame(state), 0)

ChangeBoardSize == \E size \in SizeInputs : Apply(changeBoardSize(state, size), 0)

ChangeGameMode == \E mode \in Modes : Apply(changeGameMode(state, mode), 0)

ChangeDifficulty ==
  \E difficulty \in RandomDifficulties : Apply(changeDifficulty(state, difficulty), 0)

UndoMove == Apply(undoMove(state), 0)

JoinRemoteGame == \E roomId \in RoomIds : Apply(joinRemoteGame(state, roomId), 0)

Next ==
  \/ MakeMove
  \/ TimerFires
  \/ ResetGame
  \/ ChangeBoardSize
  \/ ChangeGameMode
  \/ ChangeDifficulty
  \/ UndoMove
  \/ JoinRemoteGame

Spec == Init /\ [][Next]_vars

\* ---------------------------------------------------------------------------
\* Single-player play against the search: a 3x3 engine built with the defaults
\* (single, unbeatable); the human moves only on X's turn with no reply
\* pending, the machine's reply is the timer callback.

InitAI ==
  /\ state = createInitialState(3, "single", "unbeatable")
  /\ timers = 0
  /\ Standalone

HumanMove ==
  /\ state.currentPlayer = "X"
  /\ timers = 0
  /\ \E position \in (0..(state.boardSize - 1)) \X (0..(state.boardSize - 1)) :
       Step(makeMove(state, position), 0)

MachineReplies ==
  /\ timers > 0
  /\ \E rndPolicy \in HighDraws, rndPick \in HighDraws, rndShuffle \in ShuffleDraws :
       Step(aiTimer(state, rndPolicy, rndPick, rndShuffle), 1)

NextAI == HumanMove \/ MachineReplies

SpecAI == InitAI /\ [][NextAI]_vars

\* a timer callback that lands some move
ReplyLands ==
  /\ timers > 0
  /\ \E position \in Cells(state) : Step(makeMove(state, position), 1)

\* the values Math.random() yields in the shuffles of a reply, in tenths
ReplyShuffles == {0, 5}

\* the setTimeout callback at unbeatable difficulty
ReplyRuns ==
  /\ timers > 0
  /\ \E rndShuffle \in ReplyShuffles : Step(aiTimer(state, 0, 0, rndShuffle), 1)

NextAIFair == HumanMove \/ ReplyRuns

\* the same play with the timer queue of the host: a callback that was
\* scheduled with setTimeout is run
SpecAIFair == InitAI /\ [][NextAIFair]_vars /\ WF_vars(ReplyLands)

\* ---------------------------------------------------------------------------
\* Construction with any size: createTicTacToeEngine passes initialBoardSize
\* to createInitialState without testing it, and createTicTacToeGame passes
\* its argument on; only changeBoardSize tests a size.

\* sizes the constructor is called with: below [3,10], its lower end and one
\* inside it
ConstructSizes == {1, 2, 3, 7}

InitAnySize ==
  /\ \E n \in ConstructSizes, m \in Modes, d \in RandomDifficulties :
       state = createInitialState(n, m, d)
  /\ timers = 0
  /\ Standalone

SpecAnySize == InitAnySize /\ [][Next]_vars

\* ---------------------------------------------------------------------------
\* Self-play: a 3x3 engine at unbeatable difficulty in a two-player mode (no
\* machine reply is scheduled); a driver asks getBestMove() for every move of
\* either side and dispatches it with MAKE_MOVE until getBestMove() returns none.

InitSelfPlay ==
  /\ \E mode \in {"local", "remote"} : state = createInitialState(3, mode, "unbeatable")
  /\ timers = 0
  /\ Standalone

SelfPlayMove ==
  \E rndShuffle \in ShuffleDraws :
    \E aiMove \in {getBestMove(state, 0, 0, rndShuffle)} \ {Undefined} :
      Step(makeMove(state, aiMove), 0)

NextSelfPlay == SelfPlayMove

\* some accepted MAKE_MOVE
DriverMoves == \E position \in Cells(state) : Step(makeMove(state, position), 0)

\* the driver does not stop while the engine still accepts a move
SpecSelfPlay == InitSelfPlay /\ [][NextSelfPlay]_vars /\ WF_vars(DriverMoves)

\* ---------------------------------------------------------------------------
\* The boards of the search: a 3x3 two-player engine on which every legal
\* move of either side is dispatched, so that every position of the game is
\* reached; the search is applied to the positions with O to move.  A board
\* is reached by one history only: each side fills its cells in row-major
\* order (a board that is not over has no finished line in any order).

InitSearch ==
  /\ state = createInitialState(3, "local", "unbeatable")
  /\ timers = 0
  /\ Standalone

\* MAKE_MOVE at a cell behind the mover's previous cell
SortedMove ==
  LET n == Len(state.moveHistory)
      at(position) == position[1] * state.boardSize + position[2]
  IN \E position \in Cells(state) :
       /\ IF n >= 2 THEN at(position) > at(state.moveHistory[n - 1].position) ELSE TRUE
       /\ Step(makeMove(state, position), 0)

NextSearch == SortedMove

SpecSearch == InitSearch /\ [][NextSearch]_vars

\* ---------------------------------------------------------------------------
\* The depth-limited search: two-player engines at unbeatable difficulty, a
\* 4x4 one and a 3x3 one, each after an opening of dispatched MAKE_MOVEs, on
\* which play goes on for up to MaxCutoffMoves moves; getBestMove() is called
\* on the boards with O to move.  After the opening each side fills its cells
\* in row-major order, so a board is reached by one history.

\* the openings: the positions dispatched in turn, X first
Openings ==
  {[size |-> 4, moves |-> <<<<1, 0>>, <<0, 0>>, <<1, 3>>, <<0, 2>>, <<2, 0>>, <<0, 3>>, <<2, 3>>>>],
   [size |-> 3, moves |-> <<<<1, 1>>>>]}

\* the moves followed after the opening
MaxCutoffMoves == 3

\* the engine after MAKE_MOVE was dispatched for moves[1..k]
RECURSIVE Dispatched(_, _, _)
Dispatched(s, moves, k) ==
  IF k = 0 THEN s ELSE makeMove(Dispatched(s, moves, k - 1), moves[k]).state

OpeningOf(s) == CHOOSE o \in Openings : o.size = s.boardSize

InitCutoff ==
  /\ \E o \in Openings :
       state = Dispatched(createInitialState(o.size, "local", "unbeatable"), o.moves, Len(o.moves))
  /\ timers = 0
  /\ Standalone

\* MAKE_MOVE at a cell behind the cell of the mover's previous move after
\* the opening
CutoffMove ==
  LET n == Len(state.moveHistory)
      opened == Len(OpeningOf(state).moves)
      at(position) == position[1] * state.boardSize + position[2]
  IN /\ n < opened + MaxCutoffMoves
     /\ \E position \in Cells(state) :
          /\ IF n - 1 > opened THEN at(position) > at(state.moveHistory[n - 1].position)
                               ELSE TRUE
          /\ Step(makeMove(state, position), 0)

NextCutoff == CutoffMove

SpecCutoff == InitCutoff /\ [][NextCutoff]_vars

\* ---------------------------------------------------------------------------
\* Listeners.  subscribe(listener) pushes the callback onto the array
\* `listeners` and returns a closure that removes its first occurrence with
\* indexOf and splice.  notifyListeners is listeners.forEach(listener =>
\* listener({ ...state })): forEach reads the length once, visits the indices
\* below it in order, reads the element at each index when it gets there and
\* skips an index the array no longer has; state is read at each call.
\* A listener is known here by the name of what its callback does:
\*   observer    looks at the snapshot
\*   quitter     calls its own unsubscribe
\*   remover     calls the unsubscribe of observer
\*   adder       subscribes the observer `late`, unless it is subscribed
\*   dispatcher  dispatches CHANGE_DIFFICULTY(easy), unless the snapshot has it
\* The dispatcher's action schedules nothing and leaves gameMode, isGameOver
\* and currentPlayer alone, so the test makeMove makes after notifyListeners
\* reads the same values as before it.

MaxListeners == 3

ListenerNames == {"observer", "quitter", "remover", "adder", "dispatcher"}

Range(seq) == {seq[i] : i \in DOMAIN seq}

\* listeners.push(listener)
subscribe(array, listener) == Append(array, listener)

\* index = listeners.indexOf(listener); if (index !== -1) listeners.splice(index, 1)
unsubscribe(array, listener) ==
  IF listener \notin Range(array) THEN array
  ELSE LET index == CHOOSE i \in DOMAIN array :
                      array[i] = listener /\ \A j \in 1..(i - 1) : array[j] # listener
       IN SubSeq(array, 1, index - 1) \o SubSeq(array, index + 1, Len(array))

\* the engine while an operation runs: its state, its listeners, the calls
\* made to listeners so far (with the number of the pass that made each),
\* the timers scheduled, whether the operation threw
Running(s, array) ==
  [state |-> s, listeners |-> array, calls |-> <<>>, scheduled |-> 0, threw |-> FALSE]

RECURSIVE perform(_, _, _)
RECURSIVE notifyListenersFrom(_, _, _, _)

\* listener({ ...state }): the call is recorded, then the callback runs
callListener(run, listener, pass) ==
  LET snapshot == run.state
      called == [run EXCEPT !.calls = Append(@, [listener |-> listener,
                                                   snapshot |-> snapshot,
                                                   pass |-> pass])]
  IN CASE listener = "quitter" ->
            [called EXCEPT !.listeners = unsubscribe(@, "quitter")]
       [] listener = "remover" ->
            [called EXCEPT !.listeners = unsubscribe(@, "observer")]
       [] listener = "adder" ->
            IF "late" \in Range(called.listeners) THEN called
            ELSE [called EXCEPT !.listeners = subscribe(@, "late")]
       [] listener = "dispatcher" ->
            IF snapshot.difficulty = "easy" THEN called
            ELSE perform(called,
                         dispatch(called.state,
                                  [type |-> "CHANGE_DIFFICULTY", difficulty |-> "easy"]),
                         pass + 1)
       [] OTHER -> called

\* forEach from index k on (counted from 1), with the length read at the start
notifyListenersFrom(run, k, length, pass) ==
  IF k > length THEN run
  ELSE IF k > Len(run.listeners) THEN notifyListenersFrom(run, k + 1, length, pass)
  ELSE notifyListenersFrom(callListener(run, run.listeners[k], pass), k + 1, length, pass)

\* notifyListeners()
notifyListeners(run, pass) == notifyListenersFrom(run, 1, Len(run.listeners), pass)

\* an operation with effect e in a running engine: the assignment to state,
\* then the notification pass if the operation makes one
perform(run, e, pass) ==
  LET assigned == [run EXCEPT !.state = e.state,
                              !.scheduled = @ + e.scheduled,
                              !.threw = e.threw]
  IN IF e.notified THEN notifyListeners(assigned, pass) ELSE assigned

\* the actions dispatched to an engine with listeners: a move to the first
\* empty cell, a move to the cell of the last move (refused), and the other
\* six actions, CHANGE_BOARD_SIZE with the current size and with a refused one
ListenerActions(s) ==
  LET avail == getAvailableMoves(s)
      n == Len(s.moveHistory)
  IN {[type |-> "MAKE_MOVE", position |-> avail[k]] : k \in {1} \cap DOMAIN avail}
     \cup (IF n > 0 THEN {[type |-> "MAKE_MOVE", position |-> s.moveHistory[n].position]}
                    ELSE {})
     \cup {[type |-> "RESET_GAME"], [type |-> "UNDO_MOVE"]}
     \cup {[type |-> "CHANGE_BOARD_SIZE", size |-> size] : size \in {s.boardSize, 11}}
     \cup {[type |-> "CHANGE_GAME_MODE", mode |-> mode] : mode \in Modes}
     \cup {[type |-> "CHANGE_DIFFICULTY", difficulty |-> "hard"]}
     \cup {[type |-> "JOIN_REMOTE_GAME", roomId |-> roomId] : roomId \in RoomIds}

InitListeners ==
  /\ \E d \in RandomDifficulties : state = createInitialState(3, "single", d)
  /\ timers = 0
  /\ Standalone

\* an operation that ran to its end in the engine with its listeners; the game
\* it leaves is within the bounds of the reducer specification
Ran(run, fired) ==
  /\ Len(run.state.moveHistory) <= MaxMoves
  /\ IF Len(run.state.moveHistory) <= Len(state.moveHistory)
       THEN TRUE
       ELSE Detours(run.state.moveHistory, run.state.boardSize) <= MaxDetours
  /\ timers - fired + run.scheduled <= MaxPending
  /\ state' = run.state
  /\ timers' = timers - fired + run.scheduled
  /\ listeners' = run.listeners
  /\ UNCHANGED <<held, controller>>

Subscribe ==
  /\ Len(listeners) < MaxListeners
  /\ \E listener \in ListenerNames \ Range(listeners) :
       listeners' = subscribe(listeners, listener)
  /\ UNCHANGED <<state, timers, held, controller>>

Unsubscribe ==
  /\ \E listener \in Range(listeners) : listeners' = unsubscribe(listeners, listener)
  /\ UNCHANGED <<state, timers, held, controller>>

DispatchNotifying ==
  \E action \in ListenerActions(state) :
    Ran(perform(Running(state, listeners), dispatch(state, action), 1), 0)

TimerNotifying ==
  /\ timers > 0
  /\ \E rndPolicy \in HighDraws, rndPick \in HighDraws, rndShuffle \in HighDraws :
       Ran(perform(Running(state, listeners),
                   aiTimer(state, rndPolicy, rndPick, rndShuffle), 1), 1)

NextListeners == Subscribe \/ Unsubscribe \/ DispatchNotifying \/ TimerNotifying

SpecListeners == InitListeners /\ [][NextListeners]_vars

\* ---------------------------------------------------------------------------
\* Unsubscribe closures.  A client subscribes callbacks, the same one more
\* than once too, keeps the closures subscribe returned and invokes them, a
\* closure more than once too.  held is the sequence of the closures: the
\* callback each one captured and how often it was invoked.

\* the callbacks the client subscribes
SubscriberCallbacks == {"observer", "logger"}

\* the client calls subscribe at most MaxSubscriptions times
MaxSubscriptions == 3

InitSubscriptions ==
  /\ state = createInitialState(3, "local", "easy")
  /\ timers = 0
  /\ listeners = <<>>
  /\ held = <<>>
  /\ controller = NotMounted

\* const unsubscribe = engine.subscribe(callback)
SubscribeCallback ==
  /\ Len(held) < MaxSubscriptions
  /\ \E callback \in SubscriberCallbacks :
       /\ listeners' = subscribe(listeners, callback)
       /\ held' = Append(held, [callback |-> callback, invoked |-> 0])
  /\ UNCHANGED <<state, timers, controller>>

\* unsubscribe(), for a closure invoked less than twice so far
InvokeUnsubscribe ==
  /\ \E k \in DOMAIN held :
       /\ held[k].invoked < 2
       /\ listeners' = unsubscribe(listeners, held[k].callback)
       /\ held' = [held EXCEPT ![k].invoked = @ + 1]
  /\ UNCHANGED <<state, timers, controller>>

\* a dispatch that notifies: MAKE_MOVE at the first empty cell, or RESET_GAME
DispatchSubscribed ==
  \E action \in {[type |-> "MAKE_MOVE", position |-> getAvailableMoves(state)[k]] :
                   k \in {1} \cap DOMAIN getAvailableMoves(state)}
                \cup {[type |-> "RESET_GAME"]} :
    Ran(perform(Running(state, listeners), dispatch(state, action), 1), 0)

NextSubscriptions == SubscribeCallback \/ InvokeUnsubscribe \/ DispatchSubscribed

SpecSubscriptions == InitSubscriptions /\ [][NextSubscriptions]_vars

\* ---------------------------------------------------------------------------
\* Snapshots.  getState() returns { ...state } and notifyListeners passes
\* { ...state }: a new object whose board (with its rows) and moveHistory are
\* the very arrays of state.  makeMove, undoMove and createInitialState build
\* new arrays for the state they assign; changeDifficulty spreads the old
\* state and keeps its arrays, and an operation that assigns nothing keeps
\* them too.  held.shared tells whether the arrays of the held snapshot are
\* still those of the current state: then a write through the snapshot is a
\* write to the state.

\* the operation behind action keeps the arrays of s in the state it leaves
keepsArrays(s, action) ==
  LET e == dispatch(s, action)
  IN \/ action.type = "CHANGE_DIFFICULTY"
     \/ ~e.notified
     \/ (action.type = "UNDO_MOVE" /\ e.state = s)

\* the longest history of a game played while a client holds a snapshot
MaxHeldMoves == 3

\* the actions dispatched while a client holds a snapshot
SnapshotActions(s) ==
  LET avail == getAvailableMoves(s)
  IN {[type |-> "MAKE_MOVE", position |-> avail[k]] : k \in {1} \cap DOMAIN avail}
     \cup {[type |-> "RESET_GAME"], [type |-> "UNDO_MOVE"]}
     \cup {[type |-> "CHANGE_DIFFICULTY", difficulty |-> d] : d \in RandomDifficulties}

\* the cell a client writes through its snapshot, the marks it writes and
\* the move it pushes (once)
WrittenCells == {<<1, 1>>}
WrittenMarks == {"O", NULL}
PushedMove == [player |-> "O", position |-> <<2, 2>>]

\* the client takes its first snapshot as soon as the engine is built
InitSnapshots ==
  /\ \E d \in RandomDifficulties : state = createInitialState(3, "local", d)
  /\ timers = 0
  /\ listeners = <<>>
  /\ held = [snapshot |-> getStateCall(state).value, shared |-> TRUE]
  /\ controller = NotMounted

\* snapshot = engine.getState()
GetState ==
  /\ held' = [snapshot |-> getStateCall(state).value, shared |-> TRUE]
  /\ UNCHANGED <<state, timers, listeners, controller>>

\* engine.dispatch(action) while the snapshot is held
DispatchHeld ==
  \E action \in SnapshotActions(state) :
    LET e == dispatch(state, action)
    IN /\ Len(e.state.moveHistory) <= MaxHeldMoves
       /\ state' = e.state
       /\ held' = [held EXCEPT !.shared = @ /\ keepsArrays(state, action)]
       /\ UNCHANGED <<timers, listeners, controller>>

\* snapshot.board[row][col] = mark
WriteCell ==
  /\ \E position \in WrittenCells, mark \in WrittenMarks :
       /\ held' = [held EXCEPT !.snapshot.board = Place(@, position, mark)]
       /\ state' = IF held.shared THEN [state EXCEPT !.board = Place(@, position, mark)]
                   ELSE state
  /\ UNCHANGED <<timers, listeners, controller>>

\* snapshot.moveHistory.push(move)
PushMove ==
  /\ Len(held.snapshot.moveHistory) < MaxHeldMoves
  /\ PushedMove \notin Range(held.snapshot.moveHistory)
  /\ held' = [held EXCEPT !.snapshot.moveHistory = Append(@, PushedMove)]
  /\ state' = IF held.shared THEN [state EXCEPT !.moveHistory = Append(@, PushedMove)]
              ELSE state
  /\ UNCHANGED <<timers, listeners, controller>>

NextSnapshots == GetState \/ DispatchHeld \/ WriteCell \/ PushMove

SpecSnapshots == InitSnapshots /\ [][NextSnapshots]_vars

\* ---------------------------------------------------------------------------
\* The GameController (src/unnamed/part_000) with the remote adapter
\* (remote.ts).  The controller builds its engine from the settings, keeps
\* the engine's snapshots in its React state gameState and subscribes a
\* listener that sets gameState and calls the onStateChange prop.  Each press
\* of a control, each change of the settings (with the effects React re-runs
\* for it) and each message from the server is one step.  The controller
\* record holds
\*   settings      boardSize, gameMode, difficulty, roomId of useGameSettings
\*                 (a nickname is set)
\*   gameState     the React state
\*   adapter       remoteAdapterRef.current is not null
\*   stateChanges  the states passed to onStateChange by the last step
\*   dispatched    the actions the last step dispatched to the engine, each
\*                 with whether the engine and the settings were in remote
\*                 mode with the adapter attached when it was dispatched
\*   handed        the actions the last step handed to adapter.dispatchAction
\*   inbox         the messages of the server not yet handled
\* The listener of the "sync remote actions" effect has an empty body and is
\* left out.

NoRoomSetting == ""

\* the listeners of the controller's engine
ControllerListeners == <<"controller">>

\* a new step: the records of the last one are dropped
cleared(c) == [c EXCEPT !.stateChanges = <<>>, !.dispatched = <<>>, !.handed = <<>>]

remoteAttached(c) == c.settings.gameMode = "remote" /\ c.adapter

\* gameEngine.dispatch(action) in the controller: the engine runs the action
\* and calls the controller's listener, which sets gameState and calls
\* onStateChange
engineDispatch(w, action) ==
  LET run == perform(Running(w.state, ControllerListeners), dispatch(w.state, action), 1)
      seen == [i \in DOMAIN run.calls |-> run.calls[i].snapshot]
  IN [state |-> run.state,
      controller |->
        [w.controller EXCEPT
           !.gameState = IF seen = <<>> THEN @ ELSE seen[Len(seen)],
           !.stateChanges = @ \o seen,
           !.dispatched = Append(@, [action |-> action,
                                     remote |-> w.state.gameMode = "remote"
                                                /\ remoteAttached(w.controller)])]]

\* The statements of the controller's handlers and effects that touch the
\* engine, the adapter or the settings:
\*   dispatch  gameEngine.dispatch(action)
\*   forward   if (gameMode === 'remote' && remoteAdapterRef.current)
\*               remoteAdapterRef.current.dispatchAction(action)
\*   attach    remoteAdapterRef.current = remoteAdapter (created and connected)
\*   detach    remoteAdapter.disconnect(); remoteAdapterRef.current = null
\*   render    the component renders with new settings
Statement(do, arg) == [do |-> do, arg |-> arg]

execute(w, statement) ==
  CASE statement.do = "dispatch" -> engineDispatch(w, statement.arg)
    [] statement.do = "forward" ->
         IF remoteAttached(w.controller)
           THEN [w EXCEPT !.controller.handed = Append(@, statement.arg)]
           ELSE w
    [] statement.do = "attach" -> [w EXCEPT !.controller.adapter = TRUE]
    [] statement.do = "detach" ->
         [w EXCEPT !.controller.adapter = FALSE, !.controller.inbox = <<>>]
    [] statement.do = "render" -> [w EXCEPT !.controller.settings = statement.arg]

\* the statements of a handler or of the effects of a render, run in order
RECURSIVE runAll(_, _)
runAll(w, statements) ==
  IF statements = <<>> THEN w
  ELSE runAll(CHOOSE after \in {execute(before, Head(statements)) : before \in {w}} : TRUE,
              Tail(statements))

\* handleCellPress, resetGame and undoMove of the controller
controllerPress(action) == <<Statement("dispatch", action), Statement("forward", action)>>

\* the effect "update game when settings change"
settingsEffect(settings) ==
  <<Statement("dispatch", [type |-> "CHANGE_BOARD_SIZE", size |-> settings.boardSize]),
    Statement("dispatch", [type |-> "CHANGE_GAME_MODE", mode |-> settings.gameMode]),
    Statement("dispatch", [type |-> "CHANGE_DIFFICULTY", difficulty |-> settings.difficulty])>>

\* the effect "handle remote game connection": in remote mode with a room id
\* the adapter is created, connected and stored, then JOIN_REMOTE_GAME is
\* dispatched to the engine
remoteEffect(settings) ==
  IF settings.gameMode = "remote" /\ settings.roomId # NoRoomSetting
    THEN <<Statement("attach", settings.roomId),
           Statement("dispatch", [type |-> "JOIN_REMOTE_GAME", roomId |-> settings.roomId])>>
    ELSE <<>>

\* the engine and the controller of the first render
rendered(settings) ==
  LET s == createInitialState(settings.boardSize, settings.gameMode, settings.difficulty)
  IN [state |-> s,
      controller |-> [settings |-> settings, gameState |-> getStateCall(s).value,
                      adapter |-> FALSE, stateChanges |-> <<>>, dispatched |-> <<>>,
                      handed |-> <<>>, inbox |-> <<>>]]

\* the effects that follow the first render
mount(settings) == settingsEffect(settings) \o remoteEffect(settings)

\* a render with new settings: React runs the cleanups of the effects whose
\* dependencies changed, then their bodies in the order of the source
resettle(c, settings) ==
  LET old == c.settings
      gameChanged == <<old.boardSize, old.gameMode, old.difficulty>>
                       # <<settings.boardSize, settings.gameMode, settings.difficulty>>
      roomChanged == <<old.gameMode, old.roomId>> # <<settings.gameMode, settings.roomId>>
  IN (IF roomChanged /\ c.adapter THEN <<Statement("detach", old.roomId)>> ELSE <<>>)
     \o <<Statement("render", settings)>>
     \o (IF gameChanged THEN settingsEffect(settings) ELSE <<>>)
     \o (IF roomChanged THEN remoteEffect(settings) ELSE <<>>)

\* the settings a user chooses in remote play and next to it
ControllerSettings ==
  [boardSize : {3}, gameMode : {"local", "remote"}, difficulty : RandomDifficulties,
   roomId : {NoRoomSetting} \cup RoomIds]

\* the states a server sends: a fresh remote game and one with a first move
SyncStates ==
  LET fresh == joinRemoteGame(createInitialState(3, "remote", "easy"), "room1").state
  IN {fresh, makeMove(fresh, <<1, 1>>).state}

\* the presses of the controls: the first empty cell, the cell of the last
\* move, reset, undo
Presses(s) ==
  LET avail == getAvailableMoves(s)
      n == Len(s.moveHistory)
  IN {[type |-> "MAKE_MOVE", position |-> avail[k]] : k \in {1} \cap DOMAIN avail}
     \cup (IF n > 0 THEN {[type |-> "MAKE_MOVE", position |-> s.moveHistory[n].position]}
                    ELSE {})
     \cup {[type |-> "RESET_GAME"], [type |-> "UNDO_MOVE"]}

InitRemote ==
  /\ \E settings \in ControllerSettings :
       \E w \in {runAll(rendered(settings), mount(settings))} :
         /\ state = w.state
         /\ controller = w.controller
  /\ timers = 0
  /\ listeners = ControllerListeners
  /\ held = NoSnapshot

\* a step of the controller: the statements run from the current state, with
\* the records of the last step dropped
Settled(statements) ==
  \E w \in {runAll([state |-> state, controller |-> cleared(controller)], statements)} :
    /\ Len(w.state.moveHistory) <= MaxMoves
    /\ state' = w.state
    /\ controller' = w.controller
    /\ UNCHANGED <<timers, listeners, held>>

Press == \E action \in Presses(state) : Settled(controllerPress(action))

ChangeSettings ==
  \E settings \in ControllerSettings \ {controller.settings} :
    Settled(resettle(controller, settings))

\* the server sends SYNC_STATE to a connected adapter
ServerSends ==
  /\ controller.adapter
  /\ controller.inbox = <<>>
  /\ \E S \in SyncStates :
       controller' = [controller EXCEPT !.inbox = <<[type |-> "SYNC_STATE", state |-> S]>>]
  /\ UNCHANGED <<state, timers, listeners, held>>

\* ws.onmessage -> handleMessage -> the state handler the controller gave the
\* adapter: if (state) setGameState(state)
HandleMessage ==
  /\ controller.inbox # <<>>
  /\ controller' = [cleared(controller) EXCEPT !.gameState = Head(controller.inbox).state,
                                               !.inbox = Tail(@)]
  /\ UNCHANGED <<state, timers, listeners, held>>

NextRemote == Press \/ ChangeSettings \/ ServerSends \/ HandleMessage

SpecRemote == InitRemote /\ [][NextRemote]_vars

\* ---------------------------------------------------------------------------
\* The remote adapter (remote.ts)
\*
\* A client holds one TicTacToeRemoteAdapter; held is a record of its fields
\* and of the objects it made:
\*   sockets            the readyState of every WebSocket connect created, in
\*                      the order of creation; each keeps the handlers connect
\*                      gave it, which read the adapter's fields when they run
\*   ws                 this.ws: the index of a socket, or NoSocket for null
\*   reconnectAttempts  this.reconnectAttempts
\*   timeouts           for every setTimeout of attemptReconnect its delay and
\*                      whether its callback is still to run
\*   reconnectTimeout   this.reconnectTimeout: the index of a timeout, or
\*                      NoTimeout for null
\*   sent               the messages the last step passed to ws.send
\*   disconnected       disconnect() has returned and the client has not
\*                      called connect() since
\* timers is the number of timeouts whose callback is still to run.

NoSocket == 0
NoTimeout == 0
maxReconnectAttempts == 5

\* the sockets one adapter makes in a run
MaxSockets == 4

\* new TicTacToeRemoteAdapter(...)
newAdapter ==
  [sockets |-> <<>>, ws |-> NoSocket, reconnectAttempts |-> 0, timeouts |-> <<>>,
   reconnectTimeout |-> NoTimeout, sent |-> <<>>, disconnected |-> FALSE]

\* WebSocket.close(): a socket that is connecting or open starts closing
closeSocket(a, i) ==
  IF i # NoSocket /\ a.sockets[i] \in {"CONNECTING", "OPEN"}
    THEN [a EXCEPT !.sockets[i] = "CLOSING"]
    ELSE a

\* connect(): this.ws = new WebSocket(url), with the four handlers
connect(a) ==
  [a EXCEPT !.sockets = Append(@, "CONNECTING"), !.ws = Len(a.sockets) + 1]

\* send(message): ws.send when this.ws is open, console.error otherwise
send(a, message) ==
  IF a.ws # NoSocket /\ a.sockets[a.ws] = "OPEN"
    THEN [a EXCEPT !.sent = Append(@, message)]
    ELSE a

\* Math.min(1000 * Math.pow(2, attempts), 30000)
reconnectDelay(attempts) == Min(1000 * Pow2(attempts), 30000)

\* attemptReconnect()
attemptReconnect(a) ==
  IF a.reconnectAttempts >= maxReconnectAttempts THEN a
  ELSE LET attempts == a.reconnectAttempts + 1
       IN [a EXCEPT !.reconnectAttempts = attempts,
                    !.timeouts = Append(@, [delay |-> reconnectDelay(attempts),
                                            pending |-> TRUE]),
                    !.reconnectTimeout = Len(a.timeouts) + 1]

\* clearTimeout(handle): the callback of a timeout still to run is dropped
clearTimeout(a, handle) ==
  [a EXCEPT !.timeouts = [k \in DOMAIN a.timeouts |->
                            IF k = handle THEN [a.timeouts[k] EXCEPT !.pending = FALSE]
                                          ELSE a.timeouts[k]]]

\* disconnect()
disconnect(a) ==
  LET cleared_ == IF a.reconnectTimeout # NoTimeout
                    THEN [clearTimeout(a, a.reconnectTimeout)
                            EXCEPT !.reconnectTimeout = NoTimeout]
                    ELSE a
      left == IF cleared_.ws # NoSocket /\ cleared_.sockets[cleared_.ws] = "OPEN"
                THEN closeSocket(send(cleared_, "LEAVE_GAME"), cleared_.ws)
                ELSE cleared_
  IN [left EXCEPT !.ws = NoSocket]

\* ws.onopen of socket i
onopen(a, i) ==
  send([a EXCEPT !.sockets[i] = "OPEN", !.reconnectAttempts = 0], "JOIN_GAME")

\* ws.onclose of socket i
onclose(a, i) == attemptReconnect([a EXCEPT !.sockets[i] = "CLOSED"])

\* ws.onerror of socket i: this.ws?.close(); the failed socket itself is
\* closed by the platform, which delivers its close event afterwards
onerror(a, i) == closeSocket([a EXCEPT !.sockets[i] = "CLOSING"], a.ws)

\* the callback of timeout k: this.connect()
reconnectTimer(a, k) == connect([a EXCEPT !.timeouts[k].pending = FALSE])

PendingTimeouts(a) == {k \in DOMAIN a.timeouts : a.timeouts[k].pending}

InitAdapter ==
  /\ state = createInitialState(3, "remote", "easy")
  /\ timers = 0
  /\ listeners = <<>>
  /\ held = newAdapter
  /\ controller = NotMounted

\* a call or an event that leaves the adapter as a, with sent holding the
\* messages of this step only
Adapter(a) ==
  /\ Len(a.sockets) <= MaxSockets
  /\ held' = a
  /\ timers' = Cardinality(PendingTimeouts(a))
  /\ UNCHANGED <<state, listeners, controller>>

Quiet(a) == [a EXCEPT !.sent = <<>>]

ClientConnects == Adapter([connect(Quiet(held)) EXCEPT !.disconnected = FALSE])

ClientDisconnects == Adapter([disconnect(Quiet(held)) EXCEPT !.disconnected = TRUE])

SocketOpens ==
  \E i \in DOMAIN held.sockets :
    /\ held.sockets[i] = "CONNECTING"
    /\ Adapter(onopen(Quiet(held), i))

SocketErrors ==
  \E i \in DOMAIN held.sockets :
    /\ held.sockets[i] \in {"CONNECTING", "OPEN"}
    /\ Adapter(onerror(Quiet(held), i))

SocketCloses ==
  \E i \in DOMAIN held.sockets :
    /\ held.sockets[i] # "CLOSED"
    /\ Adapter(onclose(Quiet(held), i))

ReconnectTimerFires ==
  \E k \in PendingTimeouts(held) : Adapter(reconnectTimer(Quiet(held), k))

NextAdapter ==
  \/ ClientConnects
  \/ ClientDisconnects
  \/ SocketOpens
  \/ SocketErrors
  \/ SocketCloses
  \/ ReconnectTimerFires

SpecAdapter == InitAdapter /\ [][NextAdapter]_vars

\* ---------------------------------------------------------------------------
\* Properties

\* the draws of a timer callback in the reducer specification
TimerDraws == HighDraws \X HighDraws \X HighDraws

\* C1: if RESET_GAME, CHANGE_BOARD_SIZE, CHANGE_GAME_MODE or UNDO_MOVE is
\* dispatched while a machine reply is pending, the reply applies no move and
\* leaves the state unchanged when its timer fires afterwards.
C1_PendingReplyInvalidated ==
  timers > 0 =>
    \A e \in {resetGame(state), undoMove(state)}
             \cup {changeBoardSize(state, size) : size \in SizeInputs \cap 3..10}
             \cup {changeGameMode(state, mode) : mode \in Modes} :
      \A d \in TimerDraws : aiTimer(e.state, d[1], d[2], d[3]) = NoEffect(e.state)

C3_IsValidMoveIff ==
  \A position \in Probes(state) :
    isValidMove(state, position)
      <=> (/\ InRange(state, position)
           /\ state.board[position[1]][position[2]] = NULL
           /\ ~state.isGameOver)

\* C4: a MAKE_MOVE that is out of range, on an occupied cell or dispatched
\* after the game is over changes nothing, notifies nobody, schedules no
\* machine reply and raises nothing.
C4_InvalidMoveRejected ==
  \A position \in Probes(state) :
    (\/ ~InRange(state, position)
     \/ state.isGameOver
     \/ state.board[position[1]][position[2]] # NULL)
      => makeMove(state, position) = NoEffect(state)

\* a finished game with an empty cell left, which the dispatcher clicks
C4_Witness ==
  /\ state.isGameOver
  /\ \E position \in ClickInputs(state) :
       InRange(state, position) /\ state.board[position[1]][position[2]] = NULL

\* C5: isGameOver holds exactly when one, and only one, of "there is a
\* winner" and "the game is a draw" holds.
C5_GameOverIffWinnerXorDraw ==
  state.isGameOver <=> ((state.winner # NULL) # state.isDraw)

C5_Witness == state.isGameOver /\ state.isDraw /\ state.winner = NULL

\* C6: a winningLine that is not none has boardSize positions, comes with a
\* winner, and every cell on it holds the winner's mark.
C6_WinningLineHoldsWinner ==
  state.winningLine # NoLine =>
    /\ Len(state.winningLine) = state.boardSize
    /\ state.winner # NULL
    /\ \A i \in 1..Len(state.winningLine) :
         /\ InRange(state, state.winningLine[i])
         /\ state.board[state.winningLine[i][1]][state.winningLine[i][2]] = state.winner

C6_Witness == state.winningLine # NoLine /\ state.winner = "O"

\* C7: moveHistory has at most boardSize^2 entries, every recorded position
\* is on the board, and no position is recorded twice.
C7_HistoryBoundedUnique ==
  /\ Len(state.moveHistory) <= state.boardSize * state.boardSize
  /\ \A i \in 1..Len(state.moveHistory) : InRange(state, state.moveHistory[i].position)
  /\ \A i, j \in 1..Len(state.moveHistory) :
       state.moveHistory[i].position = state.moveHistory[j].position => i = j

C7_Witness == Len(state.moveHistory) = state.boardSize * state.boardSize

\* C8: the marks in moveHistory alternate X, O, X, ... and currentPlayer is
\* the mark opposite to the last recorded move (X on an empty history).
C8_MarksAlternate ==
  /\ \A i \in 1..Len(state.moveHistory) :
       state.moveHistory[i].player = (IF i % 2 = 1 THEN "X" ELSE "O")
  /\ state.currentPlayer = (IF Len(state.moveHistory) % 2 = 0 THEN "X" ELSE "O")

\* single-player mode with the human to move while a reply is still pending
C8_Witness ==
  /\ state.gameMode = "single"
  /\ Len(state.moveHistory) >= 2
  /\ state.currentPlayer = "X"
  /\ timers > 0

\* a cell holds mark m exactly when the history has a move by m there
BoardMatchesHistory(s) ==
  \A position \in Cells(s) :
    LET here == {i \in 1..Len(s.moveHistory) : s.moveHistory[i].position = position}
    IN IF here = {} THEN s.board[position[1]][position[2]] = NULL
       ELSE \A i \in here : s.board[position[1]][position[2]] = s.moveHistory[i].player

\* C9: the board is the replay of moveHistory onto an empty board, in
\* particular after UNDO_MOVE.
C9_BoardIsReplayOfHistory ==
  /\ BoardMatchesHistory(state)
  /\ BoardMatchesHistory(undoMove(state).state)

\* a single-player game in which the machine has replied: undo drops two moves
C9_Witness ==
  /\ state.gameMode = "single"
  /\ Len(state.moveHistory) >= 4
  /\ state.moveHistory[Len(state.moveHistory)].player = "O"
  /\ Len(undoMove(state).state.moveHistory) = Len(state.moveHistory) - 2

\* C10: on the board left by any accepted move, last-move detection and
\* full-scan detection return the same result.
C10_DetectorModesAgree ==
  ~state.isGameOver =>
    \A position \in Cells(state) :
      isValidMove(state, position) =>
        LET newBoard == Place(state.board, position, state.currentPlayer)
        IN checkGameOver(newBoard, position) = checkGameOver(newBoard, Undefined)

\* a position in which some accepted move completes the anti-diagonal
C10_Witness ==
  /\ ~state.isGameOver
  /\ \E position \in Cells(state) :
       /\ isValidMove(state, position)
       /\ checkGameOver(Place(state.board, position, state.currentPlayer), position).winningLine
            = AntiLine(state.boardSize)

\* the lines through position that hold only mark on board, as the set of
\* their kinds
LinesThrough(board, size, position, mark) ==
  LET idx == 0..(size - 1)
  IN (IF \A i \in idx : board[position[1]][i] = mark THEN {"row"} ELSE {})
     \cup (IF \A i \in idx : board[i][position[2]] = mark THEN {"column"} ELSE {})
     \cup (IF position[1] = position[2] /\ \A i \in idx : board[i][i] = mark
             THEN {"diagonal"} ELSE {})
     \cup (IF position[1] + position[2] = size - 1
              /\ \A i \in idx : board[i][size - 1 - i] = mark
             THEN {"anti-diagonal"} ELSE {})

\* C11: when an accepted move completes a line, winningLine lists that line's
\* positions in natural order (row: (r,0)..(r,n-1), column: (0,c)..(n-1,c),
\* main diagonal: (0,0)..(n-1,n-1), anti-diagonal: (0,n-1)..(n-1,0)), and of
\* several completed lines the reported one is the first of row, column, main
\* diagonal, anti-diagonal; the winner is the mover.
C11_WinningLineNaturalOrder ==
  ~state.isGameOver =>
    \A position \in Cells(state) :
      isValidMove(state, position) =>
        LET after == makeMove(state, position).state
            n == state.boardSize
            lines == LinesThrough(after.board, n, position, state.currentPlayer)
            line == after.winningLine
        IN lines # {} =>
             /\ after.winner = state.currentPlayer
             /\ Len(line) = n
             /\ \A i \in 1..n :
                  line[i] = (IF "row" \in lines THEN <<position[1], i - 1>>
                             ELSE IF "column" \in lines THEN <<i - 1, position[2]>>
                             ELSE IF "diagonal" \in lines THEN <<i - 1, i - 1>>
                             ELSE <<i - 1, n - i>>)

\* a position in which one accepted move completes two lines at once
C11_Witness ==
  /\ ~state.isGameOver
  /\ \E position \in Cells(state) :
       /\ isValidMove(state, position)
       /\ Cardinality(LinesThrough(makeMove(state, position).state.board, state.boardSize,
                                   position, state.currentPlayer)) >= 2

\* GameDifficulty
Difficulties == {"easy", "medium", "hard", "unbeatable"}

\* values of Math.random() for the difficulty draw, in tenths: one on each
\* side of every bestMoveChance
PolicyDraws == {0, 3, 6, 9}

\* values of Math.random() for the random pick, in tenths
PickDraws == {0, 5, 9}

\* the calls of getBestMove that are examined, as <<difficulty, difficulty
\* draw, random pick, shuffle draw>>: the search from its call site for
\* unbeatable with every shuffle and from its call site for the other
\* difficulties (at hard); the random pick at easy, medium and hard for every
\* difficulty draw that leads to it and every pick
BestMoveCalls ==
  ({"unbeatable"} \X {0} \X {0} \X ShuffleDraws)
  \cup {<<"hard", 0, 0, 0>>}
  \cup {c \in (Difficulties \ {"unbeatable"}) \X PolicyDraws \X PickDraws \X {0} :
          c[2] >= bestMoveChance(c[1])}

QueryCalls == {<<"unbeatable", 0, 0, 0>>, <<"hard", 9, 5, 0>>}

IsBestMove(s, position) ==
  minimax(Place(s.board, position, "O"), 1, FALSE, -Infinity, Infinity, s.boardSize, 0).score
    = minimax(s.board, 0, TRUE, -Infinity, Infinity, s.boardSize, 0).score

\* C15: at hard difficulty getBestMove() returns only moves that unbeatable
\* difficulty can return in the same state (here: for the reply pending in a
\* 3x3 single-player game).
C15_HardPlaysBestMove ==
  (/\ state.difficulty = "hard"
   /\ state.boardSize = 3
   /\ timers > 0
   /\ ~state.isGameOver)
    => \A rndPolicy \in PolicyDraws, rndPick \in PickDraws :
         IsBestMove(state, getBestMove(state, rndPolicy, rndPick, 0))

\* the terminal fields of s are cleared
FlagsCleared(s) ==
  /\ s.winner = NULL
  /\ ~s.isDraw
  /\ ~s.isGameOver
  /\ s.winningLine = NoLine

\* C16: in single-player mode UNDO_MOVE on a non-empty history drops the last
\* two moves when the most recent one is O's and two exist, and the last move
\* when the most recent one is X's; afterwards it is X's turn and winner,
\* isDraw, isGameOver and winningLine are cleared.
C16_SingleUndoDropsReply ==
  (state.gameMode = "single" /\ Len(state.moveHistory) > 0) =>
    LET n == Len(state.moveHistory)
        last == state.moveHistory[n]
        after == undoMove(state).state
        kept == IF last.player = "O" THEN n - 2 ELSE n - 1
    IN (last.player = "X" \/ n >= 2) =>
         /\ after.moveHistory = SubSeq(state.moveHistory, 1, kept)
         /\ after.currentPlayer = "X"
         /\ FlagsCleared(after)

\* a single-player game the machine has just won: undo drops its move and the
\* human's, and clears the result
C16_Witness ==
  /\ state.gameMode = "single"
  /\ state.winner = "O"
  /\ state.moveHistory[Len(state.moveHistory)].player = "O"
  /\ Len(undoMove(state).state.moveHistory) = Len(state.moveHistory) - 2

\* C17: in local and remote modes an accepted MAKE_MOVE(p) followed at once by
\* UNDO_MOVE restores the board, currentPlayer and the recorded positions and
\* marks of before the move, with the terminal fields cleared, also when the
\* move ended the game.
C17_TwoPlayerUndoRestores ==
  (state.gameMode # "single" /\ ~state.isGameOver) =>
    \A position \in Cells(state) :
      isValidMove(state, position) =>
        LET moved == makeMove(state, position).state
            after == undoMove(moved).state
        IN /\ Len(moved.moveHistory) = Len(state.moveHistory) + 1
           /\ after.board = state.board
           /\ after.currentPlayer = state.currentPlayer
           /\ after.moveHistory = state.moveHistory
           /\ FlagsCleared(after)

\* a two-player game in which O's next move ends the game
C17_Witness ==
  /\ state.gameMode # "single"
  /\ ~state.isGameOver
  /\ state.currentPlayer = "O"
  /\ \E position \in Cells(state) :
       /\ isValidMove(state, position)
       /\ makeMove(state, position).state.isGameOver
       /\ undoMove(makeMove(state, position).state).state.board = state.board

\* C18: UNDO_MOVE with an empty moveHistory is a no-op in every game mode: it
\* raises nothing, leaves the state unchanged and notifies no listener.
C18_UndoOnEmptyIsNoOp ==
  Len(state.moveHistory) = 0 => undoMove(state) = NoEffect(state)

\* an empty history with a machine reply still pending: the human's only move
\* was undone (or the game reset) before the reply
C18_Witness ==
  /\ Len(state.moveHistory) = 0
  /\ state.gameMode = "single"
  /\ timers > 0
  /\ ~undoMove(state).notified

\* sizes changeBoardSize accepts: both ends of [3,10] and the sizes in play
ValidSizes == {3, 4, 10}

\* s is a fresh game with the given settings
Fresh(s, size, mode, difficulty) ==
  /\ DOMAIN s.board = 0..(size - 1)
  /\ \A row \in 0..(size - 1) :
       /\ DOMAIN s.board[row] = 0..(size - 1)
       /\ \A col \in 0..(size - 1) : s.board[row][col] = NULL
  /\ s.currentPlayer = "X"
  /\ s.moveHistory = <<>>
  /\ FlagsCleared(s)
  /\ s.boardSize = size
  /\ s.gameMode = mode
  /\ s.difficulty = difficulty

\* C19: construction with a size in [3,10], RESET_GAME, CHANGE_BOARD_SIZE with
\* a size in [3,10] (the current one included) and CHANGE_GAME_MODE each leave
\* a fresh state: empty square board of the resulting size, X to move, empty
\* history, terminal fields cleared; the settings the action does not name
\* keep their values.
C19_ResetsYieldFreshState ==
  /\ \A size \in ValidSizes :
       Fresh(createInitialState(size, state.gameMode, state.difficulty),
             size, state.gameMode, state.difficulty)
  /\ Fresh(resetGame(state).state, state.boardSize, state.gameMode, state.difficulty)
  /\ \A size \in ValidSizes :
       /\ ~changeBoardSize(state, size).threw
       /\ Fresh(changeBoardSize(state, size).state, size, state.gameMode, state.difficulty)
  /\ \A mode \in Modes :
       Fresh(changeGameMode(state, mode).state, state.boardSize, mode, state.difficulty)

\* a finished game with a winner on record, which the resets discard
C19_Witness ==
  /\ state.isGameOver
  /\ state.winningLine # NoLine
  /\ Len(state.moveHistory) >= 5
  /\ changeBoardSize(state, state.boardSize).state.moveHistory = <<>>

\* sizes changeBoardSize refuses, on both sides of [3,10]
InvalidSizes == {-1, 0, 2, 11, 12}

\* C20: CHANGE_BOARD_SIZE with a size below 3 or above 10 fails with an error
\* to the dispatcher and leaves the whole state unchanged, with no listener
\* notified.
C20_InvalidSizeRejected ==
  \A size \in InvalidSizes : changeBoardSize(state, size) = Effect(state, FALSE, 0, TRUE)

\* a 4x4 game under way, which a refused size change must leave as it is
C20_Witness ==
  /\ state.boardSize = 4
  /\ Len(state.moveHistory) >= 3
  /\ changeBoardSize(state, 12).threw

\* C21: CHANGE_DIFFICULTY(d) replaces the difficulty field and nothing else:
\* board, currentPlayer, moveHistory, winner, isDraw, isGameOver, winningLine,
\* boardSize, gameMode and roomId keep their values, in a game under way and
\* in a finished one alike; the listeners are notified, no reply is scheduled
\* and nothing is thrown.
C21_DifficultyChangesOnlyDifficulty ==
  \A difficulty \in Difficulties :
    changeDifficulty(state, difficulty) =
      Effect([state EXCEPT !.difficulty = difficulty], TRUE, 0, FALSE)

\* a finished game with a winner whose difficulty is changed
C21_Witness ==
  /\ state.isGameOver
  /\ state.winner # NULL
  /\ state.difficulty = "easy"
  /\ changeDifficulty(state, "unbeatable").state.difficulty = "unbeatable"
  /\ changeDifficulty(state, "unbeatable").state.moveHistory = state.moveHistory

\* actions whose type is outside the switch of dispatch: the message types of
\* the remote protocol, a misspelt type and an empty one
UnknownActions ==
  {[type |-> "SYNC_STATE"], [type |-> "GAME_ACTION"],
   [type |-> "make_move", position |-> <<0, 0>>], [type |-> ""]}

\* C22: dispatching an action whose type is not one of the seven of the switch
\* leaves the state as it was, throws nothing, notifies no listener and
\* schedules nothing.
C22_UnknownActionIgnored ==
  \A action \in UnknownActions : dispatch(state, action) = NoEffect(state)

\* a game under way on which an unknown action is dispatched
C22_Witness ==
  /\ ~state.isGameOver
  /\ Len(state.moveHistory) >= 3
  /\ ~dispatch(state, [type |-> "SYNC_STATE"]).notified

\* the room ids JOIN_REMOTE_GAME is probed with
JoinRoomIds == {"room1", "room2"}

\* C23: JOIN_REMOTE_GAME(roomId), from any state and any mode, leaves a fresh
\* state (empty board, X to move, empty history, not over) in remote mode with
\* roomId set to the given id; boardSize and difficulty keep their values.
C23_JoinRemoteYieldsFreshRemote ==
  \A roomId \in JoinRoomIds :
    LET e == joinRemoteGame(state, roomId)
    IN /\ Fresh(e.state, state.boardSize, "remote", state.difficulty)
       /\ e.state.roomId = roomId
       /\ ~e.threw

\* a finished single-player game that joins a room
C23_Witness ==
  /\ state.gameMode = "single"
  /\ state.isGameOver
  /\ Len(state.moveHistory) >= 5
  /\ joinRemoteGame(state, "room2").state.roomId = "room2"

\* the board holds a complete line of one mark
HasCompleteLine(board) ==
  LET size == BoardLen(board)
      idx == 0..(size - 1)
      same(line) == board[line[1][1]][line[1][2]] # NULL
                    /\ \A k \in 2..size :
                         board[line[k][1]][line[k][2]] = board[line[1][1]][line[1][2]]
  IN \/ \E row \in idx : same(RowLine(size, row))
     \/ \E col \in idx : same(ColLine(size, col))
     \/ same(DiagLine(size))
     \/ same(AntiLine(size))

\* no cell of the board is empty
BoardFull(board) ==
  \A row \in 0..(BoardLen(board) - 1) : \A col \in 0..(BoardLen(board) - 1) :
    board[row][col] # NULL

\* the stored terminal fields of s are what the full scan computes on its board
StoredMatchesFullScan(s) ==
  LET scan == checkGameOver(s.board, Undefined)
  IN /\ s.isGameOver = scan.isGameOver
     /\ s.winner = scan.winner
     /\ s.isDraw = scan.isDraw
     /\ s.isGameOver = (HasCompleteLine(s.board) \/ BoardFull(s.board))

\* C30: in every reachable state, and in the state UNDO_MOVE leaves from it,
\* the stored isGameOver, winner and isDraw equal what the full-scan detector
\* computes on the board: the game is flagged over exactly when the board
\* holds a complete line or has no empty cell.
C30_StoredFlagsMatchFullScan ==
  /\ StoredMatchesFullScan(state)
  /\ StoredMatchesFullScan(undoMove(state).state)

\* an undo out of a won game: the flags are cleared and the board it leaves
\* holds no complete line
C30_Witness ==
  /\ state.isGameOver
  /\ state.winner # NULL
  /\ HasCompleteLine(state.board)
  /\ ~undoMove(state).state.isGameOver
  /\ ~HasCompleteLine(undoMove(state).state.board)

\* C28: in every state of every engine, the state construction leaves with
\* any size argument included, boardSize lies in [3,10] and the board is a
\* square matrix of boardSize rows of boardSize cells, each X, O or empty.
C28_BoardSquareAndSizeInRange ==
  /\ state.boardSize \in 3..10
  /\ DOMAIN state.board = 0..(state.boardSize - 1)
  /\ \A row \in DOMAIN state.board :
       /\ DOMAIN state.board[row] = 0..(state.boardSize - 1)
       /\ \A col \in DOMAIN state.board[row] : state.board[row][col] \in {"X", "O", NULL}

\* the effects of the operations examined in an engine with listeners: every
\* action of ListenerActions dispatched, and the machine's deferred move when
\* one is pending
NotifyingOperations ==
  {dispatch(state, action) : action \in ListenerActions(state)}
  \cup (IF timers > 0 THEN {aiTimer(state, 9, 9, 9)} ELSE {})

\* the calls a run made to listener
CallsTo(run, listener) == {i \in DOMAIN run.calls : run.calls[i].listener = listener}

\* C24: every operation that produces a new state (accepted MAKE_MOVE, the
\* machine's deferred move, RESET_GAME, valid CHANGE_BOARD_SIZE,
\* CHANGE_GAME_MODE, CHANGE_DIFFICULTY, effective UNDO_MOVE, JOIN_REMOTE_GAME)
\* calls every listener subscribed when it is dispatched, before it returns,
\* with a snapshot equal to the state it leaves.
C24_NewStateReachesEveryListener ==
  \A e \in NotifyingOperations :
    e.state # state =>
      LET run == perform(Running(state, listeners), e, 1)
      IN \A listener \in Range(listeners) :
           \E i \in CallsTo(run, listener) : run.calls[i].snapshot = run.state

\* C25: a notification pass calls every listener subscribed when the pass
\* starts exactly once, whatever the listeners do in their callbacks
\* (dispatch, subscribe, unsubscribe themselves or another listener).
C25_PassCallsEachListenerOnce ==
  \A e \in NotifyingOperations :
    e.notified =>
      LET run == perform(Running(state, listeners), e, 1)
      IN \A listener \in Range(listeners) :
           Cardinality({i \in CallsTo(run, listener) : run.calls[i].pass = 1}) = 1

\* C29: snapshots are isolated from the engine state: a transition of the
\* engine does not change a snapshot handed out before it, and a write to a
\* cell of a snapshot's board or a push onto its moveHistory does not change
\* what getState() returns.
C29_SnapshotsIsolated ==
  [][/\ DispatchHeld => held'.snapshot = held.snapshot
     /\ (WriteCell \/ PushMove) => getStateCall(state').value = getStateCall(state).value]_vars

\* C26: while the game is in remote mode with the adapter attached, every
\* action dispatched to the local engine is also handed to the adapter's
\* dispatchAction: each action a step of the controller dispatched in that
\* situation is among the actions the step handed over.
C26_RemoteDispatchesForwarded ==
  LET d == controller.dispatched
      handed == controller.handed
  IN \A i \in DOMAIN d :
       d[i].remote => \E j \in DOMAIN handed : handed[j] = d[i].action

\* C27: handling SYNC_STATE(S) replaces the locally mirrored GameState with S
\* and takes the notification path of a local transition: the observers of
\* local changes (the listener the controller subscribed to the engine, which
\* calls onStateChange) are called with S.
C27_SyncStateNotifiesObservers ==
  [][HandleMessage =>
       LET S == Head(controller.inbox).state
       IN /\ controller'.gameState = S
          /\ controller'.stateChanges = <<S>>]_vars

\* C31: single-player: an accepted MAKE_MOVE that leaves the game not over
\* with O to move does not apply the machine's move inside the dispatch: when
\* it returns only the human's move was added, O is to move and the reply is
\* scheduled.  With no other action dispatched the reply is applied by the
\* timer callback: moveHistory grows by one O move at a cell that was empty,
\* and the turn returns to X or the game is over.
C31_ReplyDeferredThenApplied ==
  /\ [][HumanMove /\ ~state'.isGameOver =>
          /\ Len(state'.moveHistory) = Len(state.moveHistory) + 1
          /\ state'.moveHistory[Len(state'.moveHistory)].player = "X"
          /\ state'.currentPlayer = "O"
          /\ timers' = 1]_vars
  /\ [][ReplyRuns =>
          LET n == Len(state.moveHistory)
              move == state'.moveHistory[n + 1]
          IN /\ Len(state'.moveHistory) = n + 1
             /\ move.player = "O"
             /\ state.board[move.position[1]][move.position[2]] = NULL
             /\ state'.board[move.position[1]][move.position[2]] = "O"
             /\ state'.currentPlayer = "X" \/ state'.isGameOver
             /\ timers' = 0]_vars
  /\ \A n \in 1..MaxMoves :
       (timers > 0 /\ Len(state.moveHistory) = n)
         ~> (timers = 0 /\ Len(state.moveHistory) = n + 1)

\* the machine has replied to a second human move
C31_Witness ==
  /\ timers = 0
  /\ Len(state.moveHistory) = 4
  /\ state.moveHistory[4].player = "O"
  /\ ~state.isGameOver

\* the step appended one move to the history of a single-player game
Landed ==
  /\ state.gameMode = "single"
  /\ state'.gameMode = "single"
  /\ Len(state'.moveHistory) = Len(state.moveHistory) + 1

\* C32: single-player, any interleaving of dispatches and timer callbacks: a
\* move applied by the timer callback carries O, and a move applied by a
\* dispatched MAKE_MOVE carries X.
C32_MarksByOrigin ==
  [][/\ (MakeMove /\ Landed) => state'.moveHistory[Len(state'.moveHistory)].player = "X"
     /\ (TimerFires /\ Landed) => state'.moveHistory[Len(state'.moveHistory)].player = "O"]_vars

\* C33: at most one machine reply is pending at any time: no more than one
\* callback is outstanding, and no MAKE_MOVE dispatched now leaves more than
\* one outstanding (makeMove is the only operation that schedules one).
C33_AtMostOneReplyPending ==
  /\ timers <= 1
  /\ \A position \in ClickInputs(state) : timers + makeMove(state, position).scheduled <= 1

\* The game value of a board by minimax without pruning and without
\* shuffling, with the terminal scores of the search: 10 - depth for a win of
\* O, depth - 10 for a win of X, 0 for a draw.
RECURSIVE plainMinimax(_, _, _)
plainMinimax(board, depth, isMaximizing) ==
  LET gameOverStatus == checkGameOver(board, Undefined)
      moves == EmptyCells(board)
      scores == {plainMinimax(Place(board, moves[k], IF isMaximizing THEN "O" ELSE "X"),
                              depth + 1, ~isMaximizing) : k \in DOMAIN moves}
  IN IF gameOverStatus.winner = "O" THEN 10 - depth
     ELSE IF gameOverStatus.winner = "X" THEN depth - 10
     ELSE IF gameOverStatus.isDraw THEN 0
     ELSE IF isMaximizing THEN CHOOSE v \in scores : \A w \in scores : v >= w
     ELSE CHOOSE v \in scores : \A w \in scores : v <= w

WinningMoves(s) ==
  {position \in Range(getAvailableMoves(s)) :
     checkFullScan(Place(s.board, position, "O")).winner = "O"}

\* C35: unbeatable difficulty, any board size: whenever O has a move that
\* completes a line at once, getBestMove() returns such a move.
C35_ImmediateWinTaken ==
  (/\ state.difficulty = "unbeatable"
   /\ ~state.isGameOver
   /\ state.currentPlayer = "O"
   /\ WinningMoves(state) # {})
    => \A rndShuffle \in {0} : getBestMove(state, 0, 0, rndShuffle) \in WinningMoves(state)

\* minimax with a record of where it stopped: next to score and position the
\* result carries the leaves of the call tree, each with its depth, whether
\* its board was over and whether it was scored by evaluateBoard.
RECURSIVE minimaxVisits(_, _, _, _, _, _, _)
RECURSIVE minimaxVisitsLoop(_, _, _, _, _, _, _, _, _, _)

\* the search with a depth limit of 6 on the larger boards
minimaxVisits_depthSix(board, depth, isMaximizing, alpha, beta, boardSize, rnd) ==
  LET maxDepth == IF boardSize = 3 THEN Infinity ELSE 6
      gameOverStatus == checkGameOver(board, Undefined)
      leaf(score, heuristic) ==
        [score |-> score, position |-> Undefined,
         leaves |-> {[depth |-> depth, over |-> gameOverStatus.isGameOver,
                      heuristic |-> heuristic]}]
  IN IF gameOverStatus.isGameOver
       THEN leaf(IF gameOverStatus.winner = "O" THEN 10 - depth
                 ELSE IF gameOverStatus.winner = "X" THEN depth - 10 ELSE 0, FALSE)
     ELSE IF depth >= maxDepth
       THEN leaf(evaluateBoard(board), TRUE)
     ELSE minimaxVisitsLoop(board, depth, isMaximizing, alpha, beta, boardSize, rnd,
                            shuffleArray(EmptyCells(board), rnd), 1,
                            [score |-> IF isMaximizing THEN -Infinity ELSE Infinity,
                             position |-> Undefined, leaves |-> {}])

minimaxVisits(board, depth, isMaximizing, alpha, beta, boardSize, rnd) ==
  LET maxDepth == IF boardSize = 3 THEN Infinity ELSE 5
      gameOverStatus == checkGameOver(board, Undefined)
      leaf(score, heuristic) ==
        [score |-> score, position |-> Undefined,
         leaves |-> {[depth |-> depth, over |-> gameOverStatus.isGameOver,
                      heuristic |-> heuristic]}]
  IN IF (gameOverStatus.isGameOver \/ depth >= maxDepth) /\ gameOverStatus.winner = "O"
       THEN leaf(10 - depth, FALSE)
     ELSE IF (gameOverStatus.isGameOver \/ depth >= maxDepth) /\ gameOverStatus.winner = "X"
       THEN leaf(depth - 10, FALSE)
     ELSE IF (gameOverStatus.isGameOver \/ depth >= maxDepth) /\ gameOverStatus.isDraw
       THEN leaf(0, FALSE)
     ELSE IF depth >= maxDepth
       THEN leaf(evaluateBoard(board), TRUE)
     ELSE minimaxVisitsLoop(board, depth, isMaximizing, alpha, beta, boardSize, rnd,
                            shuffleArray(EmptyCells(board), rnd), 1,
                            [score |-> IF isMaximizing THEN -Infinity ELSE Infinity,
                             position |-> Undefined, leaves |-> {}])

minimaxVisitsLoop(board, depth, isMaximizing, alpha, beta, boardSize, rnd, moves, k, best) ==
  IF k > Len(moves) THEN best
  ELSE LET newBoard == Place(board, moves[k], IF isMaximizing THEN "O" ELSE "X")
           result == minimaxVisits(newBoard, depth + 1, ~isMaximizing, alpha, beta, boardSize, rnd)
           improves == improvesBest(isMaximizing, result.score, best.score)
           newBest == [score |-> IF improves THEN result.score ELSE best.score,
                       position |-> IF improves THEN moves[k] ELSE best.position,
                       leaves |-> best.leaves \cup result.leaves]
           newAlpha == IF isMaximizing THEN Max(alpha, newBest.score) ELSE alpha
           newBeta == IF isMaximizing THEN beta ELSE Min(beta, newBest.score)
       IN IF newBeta <= newAlpha THEN newBest
          ELSE minimaxVisitsLoop(board, depth, isMaximizing, newAlpha, newBeta, boardSize, rnd,
                                 moves, k + 1, newBest)

\* C36: a call of getBestMove() terminates: its search returns, and no leaf
\* lies deeper than the number of empty cells.  On a board larger than 3x3 no
\* position lies more than 5 plies below the root, and a position at ply 5
\* that is not over is scored by the heuristic; on 3x3 every leaf is a board
\* that is over.
C36_SearchDepthBounded ==
  ~state.isGameOver =>
    LET visits == minimaxVisits(state.board, 0, TRUE, -Infinity, Infinity, state.boardSize, 0)
        empty == Len(getAvailableMoves(state))
    IN /\ visits.position = getBestMove(state, 0, 0, 0)
       /\ \A leaf \in visits.leaves :
            /\ leaf.depth <= empty
            /\ IF state.boardSize > 3
                 THEN /\ leaf.depth <= 5
                      /\ leaf.heuristic <=> (leaf.depth = 5 /\ ~leaf.over)
                      /\ leaf.depth < 5 => leaf.over
                 ELSE leaf.over /\ ~leaf.heuristic

\* a 4x4 board whose search was cut off at ply 5 and also met finished games
C36_Witness ==
  /\ state.boardSize = 4
  /\ ~state.isGameOver
  /\ Len(state.moveHistory) = 9
  /\ LET visits == minimaxVisits(state.board, 0, TRUE, -Infinity, Infinity, state.boardSize, 0)
     IN /\ \E leaf \in visits.leaves : leaf.heuristic
        /\ \E leaf \in visits.leaves : leaf.over /\ leaf.depth < 5

\* C37: invoking the closure subscribe returned removes the subscription that
\* produced it and no other one, and invoking it again does nothing: a
\* notification pass calls each callback once for every subscription of it
\* whose closure was never invoked.
C37_UnsubscribeRemovesOwnSubscription ==
  LET run == notifyListeners(Running(state, listeners), 1)
  IN \A callback \in SubscriberCallbacks :
       Cardinality(CallsTo(run, callback))
         = Cardinality({k \in DOMAIN held : held[k].callback = callback
                                            /\ held[k].invoked = 0})

\* ---------------------------------------------------------------------------
\* The room of a remote game

\* the actions that leave gameMode alone and name no room
RoomKeepingActions(s) ==
  {[type |-> "MAKE_MOVE", position |-> position] : position \in ClickInputs(s)}
  \cup {[type |-> "UNDO_MOVE"], [type |-> "RESET_GAME"]}
  \cup {[type |-> "CHANGE_DIFFICULTY", difficulty |-> difficulty] :
          difficulty \in RandomDifficulties}
  \cup {[type |-> "CHANGE_BOARD_SIZE", size |-> size] : size \in SizeInputs}

\* C38: once JOIN_REMOTE_GAME(r) has set roomId to r, every MAKE_MOVE,
\* UNDO_MOVE, CHANGE_DIFFICULTY, RESET_GAME and CHANGE_BOARD_SIZE leaves a
\* state whose roomId is still r (gameMode stays remote under all of them);
\* only CHANGE_GAME_MODE or another JOIN_REMOTE_GAME changes or removes it.
C38_RoomKeptWhileRemote ==
  (state.gameMode = "remote" /\ state.roomId # NoRoom) =>
    \A action \in RoomKeepingActions(state) :
      LET e == dispatch(state, action)
      IN /\ e.state.gameMode = "remote"
         /\ e.state.roomId = state.roomId

\* ---------------------------------------------------------------------------
\* The controller and a change of difficulty

\* the step is a render whose settings differ from the last ones in the
\* difficulty only, made with a game in progress
DifficultyOnlyChange ==
  /\ controller'.settings = [controller.settings EXCEPT
                               !.difficulty = controller'.settings.difficulty]
  /\ controller'.settings.difficulty # controller.settings.difficulty
  /\ state.moveHistory # <<>>
  /\ ~state.isGameOver

\* C40: when only the difficulty setting changes while a game is in progress,
\* the engine's state after the controller has reacted has the board and the
\* moveHistory it had before; only its difficulty field differs.
C40_DifficultyChangeKeepsGame ==
  [][DifficultyOnlyChange =>
       /\ state'.board = state.board
       /\ state'.moveHistory = state.moveHistory
       /\ state' = [state EXCEPT !.difficulty = controller'.settings.difficulty]]_vars

\* ---------------------------------------------------------------------------
\* The remote adapter after disconnect()

\* C39: once disconnect() has returned, and until the client calls connect()
\* again, the adapter has no reconnect scheduled and creates no socket,
\* whichever socket events arrive and whatever the socket was doing at the
\* time of the call.
C39_DisconnectStopsReconnecting ==
  [][held'.disconnected =>
       /\ PendingTimeouts(held') = {}
       /\ held.disconnected => Len(held'.sockets) = Len(held.sockets)]_vars


====
